---- MODULE Spec2Model ----
(***************************************************************************)
(* A state-machine model of src/src/pages/Word.tsx: the Word component's   *)
(* React state, the session word loader (fetchAndTranslateWords with       *)
(* fetchWordFromAPI and translateEnglishToKorean) and the navigation       *)
(* handlers.  Every await of the source is a step boundary: a network      *)
(* call is one step that issues the request and one step that consumes     *)
(* the response, and every delay(1000) is a step of its own.               *)
(*                                                                         *)
(* The Korean string literals of the source are written here as ASCII      *)
(* renderings, one distinct string per distinct literal of the source.     *)
(***************************************************************************)
EXTENDS Integers, Sequences, FiniteSets, TLC

VARIABLES
    \* ---- React state of the component (Word.tsx:11-18) ----
    currentScreen,       \* 1 = Setup, 2 = Browsing, 3 = Finished
    wordCount,
    currentWordIndex,
    currentWordData,
    isLoading,
    loadingMessage,
    error,
    allWordsForSession,
    \* ---- environment and output of the component ----
    hasKey,              \* GOOGLE_TRANSLATE_API_KEY is set (Word.tsx:21-22)
    alertMsg,            \* the last window.alert shown, NoAlert for none
    route,               \* where navigate() has taken the app
    routeState,          \* the state object handed to navigate()
    outstanding,         \* network requests issued and not yet answered
    \* ---- the running fetchAndTranslateWords call ----
    pc,                  \* position of the loader
    caller,              \* who awaits the loader: handleStartClick or a direct call
    count,               \* parameter of the current (or last) fetchAndTranslateWords call
    i,                   \* for-loop variable (Word.tsx:119)
    attempts,            \* Word.tsx:121
    foundValidWord,      \* Word.tsx:120
    fetchedWords,        \* Word.tsx:116
    retryCount,          \* parameter of the current fetchWordFromAPI frame
    randomWord,          \* Word.tsx:86, local of the current frame
    englishWord,         \* Word.tsx:128
    \* ---- history variables, read by the properties only ----
    activeLoads,         \* fetchAndTranslateWords calls started and not finished
    fetchTries,          \* Word Source requests of the current top-level fetchWordFromAPI call
    validated,           \* the word the dictionary accepted in the current frame
    lastOp,              \* name of the last step taken
    preIndex,            \* currentWordIndex before the last navigation handler ran
    sinceRequest,        \* what the load did last: "request" (Word Source), "delay", or "none"
    nextRun,             \* next actions in a row since the load completed, -1 once broken
    published,           \* the list the loader handed to setAllWordsForSession
    track,               \* whether the requests of a whole load are counted
    wsInSlot,            \* Word Source requests issued for the current slot
    trInSlot,            \* translation requests issued for the current slot
    wsInLoad,            \* Word Source requests of the load (counted when track)
    trInLoad             \* translation requests of the load (counted when track)

vars == << currentScreen, wordCount, currentWordIndex, currentWordData, isLoading,
           loadingMessage, error, allWordsForSession, hasKey, alertMsg, route,
           routeState, outstanding, pc, caller, count, i, attempts, foundValidWord,
           fetchedWords, retryCount, randomWord, englishWord, activeLoads,
           fetchTries, validated, lastOp, preIndex, sinceRequest, nextRun,
           published, track, wsInSlot, trInSlot, wsInLoad, trInLoad >>

uiVars == << currentScreen, wordCount, currentWordIndex, currentWordData, isLoading,
             loadingMessage, error, allWordsForSession >>

loaderVars == << pc, caller, count, i, attempts, foundValidWord, fetchedWords,
                 retryCount, randomWord, englishWord >>

(***************************************************************************)
(* Bounds of the model.                                                    *)
(***************************************************************************)
MaxCount == 2            \* largest word count the user enters

(***************************************************************************)
(* Program constants and literals.                                         *)
(***************************************************************************)
MAX_ATTEMPTS_PER_WORD == 5
MAX_RETRIES == 3
TRUNCATE_AT == 30

Words == {"cat", "dog"}                       \* what the Word Source may answer

NoWord == [null |-> TRUE]                     \* currentWordData = null
NoError == "<null>"                           \* error = null
NoAlert == "<none>"
NoValue == "<undefined>"                      \* an unassigned local

COUNT_ALERT == "enter a word count of 1 or more"
KEY_ALERT == "Google Translate API Key is not set"
NO_KEY_MESSAGE == "translation API key missing"
INVALID_KEY_MESSAGE == "translation failed: API key is not valid."
QUOTA_MESSAGE == "translation failed: daily limit exceeded."
GENERIC_PREFIX == "translation failed: "
ERROR_WORD == "error word"
LOAD_FAIL_PREFIX == "loading failed: "
UNKNOWN_ERROR == "unknown error"
PARTIAL_FAILURE == "some words failed to load"
EMPTY_LIST_ERROR == "failed to load words: the word list is empty"
NO_PREVIOUS == "there is no previous word"
FETCH_ERROR == "Could not fetch a random word."
DICT_ERROR == "Could not find a valid word."

\* messages of the exceptions the runtime raises
NETWORK_ERROR == "Failed to fetch"
JSON_ERROR == "Unexpected token < in JSON at position 0"
PATH_ERROR == "Cannot read properties of undefined (reading 'translations')"

(***************************************************************************)
(* String helpers: String.prototype.includes and substring(0, n).          *)
(***************************************************************************)
Includes(s, sub) ==
    \E k \in 1..(Len(s) - Len(sub) + 1) : SubSeq(s, k, k + Len(sub) - 1) = sub

Substring(s, n) == IF Len(s) <= n THEN s ELSE SubSeq(s, 1, n)

(***************************************************************************)
(* translateEnglishToKorean, Word.tsx:29-68.                               *)
(***************************************************************************)
\* What the translation endpoint may do with one request.
TranslateOutcomes ==
    { [kind |-> "ok"],                                      \* 200, well-formed body
      [kind |-> "http", body |-> "API key not valid. Please pass a valid API key."],
      [kind |-> "http", body |-> "daily limit exceeded"],
      [kind |-> "http", body |-> "Bad Request"],            \* error.message or statusText
      [kind |-> "httpBadJson"],                             \* !ok and response.json() throws
      [kind |-> "network"],                                 \* fetch rejects
      [kind |-> "badJson"],                                 \* 200, response.json() throws
      [kind |-> "noPath"] }                                 \* 200, body without data.translations

Translation(word) == "ko:" \o word

\* The message of the exception raised inside the try block, Word.tsx:36-59.
TranslateThrown(o) ==
    CASE o.kind = "http"        -> "Translation API error: " \o o.body
      [] o.kind = "httpBadJson" -> JSON_ERROR
      [] o.kind = "network"     -> NETWORK_ERROR
      [] o.kind = "badJson"     -> JSON_ERROR
      [] o.kind = "noPath"      -> PATH_ERROR

\* How an async call ends: with a value, or with an error carrying a message.
Returned(v) == [kind |-> "return", value |-> v]
Thrown(msg) == [kind |-> "throw", msg |-> msg]

\* Mutant: the catch block rethrows the errors it does not classify.
TranslateCatch_Rethrow(msg) ==
    IF Includes(msg, "API key not valid") THEN Returned(INVALID_KEY_MESSAGE)
    ELSE IF Includes(msg, "daily limit exceeded") THEN Returned(QUOTA_MESSAGE)
    ELSE Thrown(msg)

\* The catch block, Word.tsx:60-67.
TranslateCatch(msg) ==
    IF Includes(msg, "API key not valid") THEN Returned(INVALID_KEY_MESSAGE)
    ELSE IF Includes(msg, "daily limit exceeded") THEN Returned(QUOTA_MESSAGE)
    ELSE Returned(GENERIC_PREFIX \o msg)

\* How translateEnglishToKorean ends without a key, Word.tsx:32-35.
TranslateWithoutKey == Returned(NO_KEY_MESSAGE)

\* How translateEnglishToKorean ends once the endpoint has answered, Word.tsx:36-67.
TranslateResult(word, o) ==
    IF o.kind = "ok"
      THEN Returned(Translation(word))
      ELSE TranslateCatch(TranslateThrown(o))

(***************************************************************************)
(* Pieces of fetchWordFromAPI and fetchAndTranslateWords.                  *)
(***************************************************************************)
\* Mutant: the retry test off by one (retryCount <= 3).
ShouldRetry_OffByOne(rc) == rc <= MAX_RETRIES

\* retryCount < 3, Word.tsx:78, 94, 103
ShouldRetry(rc) == rc < MAX_RETRIES

\* Mutant: the exhaustion test off by one (attempts > MAX_ATTEMPTS_PER_WORD).
AttemptsExhausted_Strict(a) == a > MAX_ATTEMPTS_PER_WORD

\* Mutant: the placeholder is inserted one attempt early.
AttemptsExhausted_Early(a) == a >= MAX_ATTEMPTS_PER_WORD - 1

\* attempts >= MAX_ATTEMPTS_PER_WORD, Word.tsx:143
AttemptsExhausted(a) == a >= MAX_ATTEMPTS_PER_WORD

\* The placeholder pair, Word.tsx:144-147.
Placeholder(msg) ==
    [english |-> ERROR_WORD,
     korean  |-> LOAD_FAIL_PREFIX
                   \o (IF msg # "" THEN Substring(msg, TRUNCATE_AT) ELSE UNKNOWN_ERROR)
                   \o "..."]

IsPlaceholder(p) == p.english = ERROR_WORD

WordSourceRequest == [kind |-> "wordSource"]
DictionaryRequest(w) == [kind |-> "dictionary", q |-> w]
TranslateRequest(w) == [kind |-> "translate", q |-> w]

Remove(seq, r) ==
    LET k == CHOOSE k \in 1..Len(seq) : seq[k] = r
    IN  SubSeq(seq, 1, k - 1) \o SubSeq(seq, k + 1, Len(seq))

InFlight(r) == \E k \in 1..Len(outstanding) : outstanding[k] = r

(***************************************************************************)
(* Initial state: the component as mounted, Word.tsx:11-18.                *)
(***************************************************************************)
\* counting: whether the requests of a whole load are counted (wsInLoad, trInLoad).
InitState(counting) ==
    /\ currentScreen = 1
    /\ wordCount = 0
    /\ currentWordIndex = 0
    /\ currentWordData = NoWord
    /\ isLoading = FALSE
    /\ loadingMessage = << >>
    /\ error = NoError
    /\ allWordsForSession = << >>
    /\ hasKey \in BOOLEAN
    /\ alertMsg = NoAlert
    /\ route = "/word"
    /\ routeState = << >>
    /\ outstanding = << >>
    /\ pc = "idle"
    /\ caller = "none"
    /\ count = 0
    /\ i = 0
    /\ attempts = 0
    /\ foundValidWord = FALSE
    /\ fetchedWords = << >>
    /\ retryCount = 0
    /\ randomWord = NoValue
    /\ englishWord = NoValue
    /\ activeLoads = 0
    /\ fetchTries = 0
    /\ validated = NoValue
    /\ lastOp = "init"
    /\ preIndex = 0
    /\ sinceRequest = "none"
    /\ nextRun = -1
    /\ published = << >>
    /\ track = counting
    /\ wsInSlot = 0
    /\ trInSlot = 0
    /\ wsInLoad = 0
    /\ trInLoad = 0

Init == InitState(FALSE)

\* The same component with the requests of each load counted.
InitCount == InitState(TRUE)

(***************************************************************************)
(* The loader: fetchAndTranslateWords, Word.tsx:112-170, with the calls    *)
(* it awaits.                                                              *)
(***************************************************************************)
\* What the Word Source and the dictionary may do with one request.
WordSourceOutcomes ==
    { [kind |-> "ok", word |-> w] : w \in Words }
      \cup { [kind |-> "notOk"], [kind |-> "network"], [kind |-> "badJson"] }

DictionaryOutcomes == { [kind |-> "ok"], [kind |-> "notOk"], [kind |-> "network"] }

\* The answers drawn while the requests of a load are counted: one success and
\* one failure of each service, so that the counters stay the only growth.
CountedWordSourceOutcomes == { [kind |-> "ok", word |-> "cat"], [kind |-> "notOk"] }

CountedDictionaryOutcomes == { [kind |-> "ok"], [kind |-> "notOk"] }

CountedTranslateOutcomes == { [kind |-> "ok"], [kind |-> "network"] }

\* Word.tsx:113-116: the synchronous prefix of fetchAndTranslateWords(n).
BeginLoad(n, who) ==
    /\ isLoading' = TRUE
    /\ loadingMessage' = << "loading" >>
    /\ error' = NoError
    /\ fetchedWords' = << >>
    /\ count' = n
    /\ i' = 0
    /\ pc' = "for"
    /\ caller' = who
    /\ activeLoads' = activeLoads + 1
    /\ UNCHANGED << attempts, foundValidWord, retryCount, randomWord, englishWord,
                    fetchTries, validated, outstanding >>
    /\ sinceRequest' = "none"
    /\ wsInSlot' = 0
    /\ trInSlot' = 0
    /\ wsInLoad' = 0
    /\ trInLoad' = 0

\* Word.tsx:119-121: the for loop enters slot i.
LoaderEnterSlot ==
    /\ pc = "for"
    /\ i < count
    /\ foundValidWord' = FALSE
    /\ attempts' = 0
    /\ pc' = "while"
    /\ lastOp' = "enterSlot"
    /\ UNCHANGED << uiVars, hasKey, alertMsg, route, routeState, outstanding,
                    caller, count, i, fetchedWords, retryCount, randomWord,
                    englishWord, activeLoads, fetchTries, validated, preIndex,
                    sinceRequest, nextRun, published, wsInLoad, trInLoad, track >>
    /\ wsInSlot' = 0
    /\ trInSlot' = 0

\* Word.tsx:123-128 and 73-75: one more attempt for slot i; fetchWordFromAPI()
\* is called with retryCount = 0 and issues its Word Source request.
LoaderAttempt ==
    /\ pc = "while"
    /\ ~foundValidWord /\ attempts < MAX_ATTEMPTS_PER_WORD
    /\ attempts' = attempts + 1
    /\ loadingMessage' = << "fetching", i + 1 >>
    /\ retryCount' = 0
    /\ randomWord' = NoValue
    /\ validated' = NoValue
    /\ fetchTries' = 1
    /\ outstanding' = Append(outstanding, WordSourceRequest)
    /\ pc' = "wsWait"
    /\ lastOp' = "attempt"
    /\ UNCHANGED << currentScreen, wordCount, currentWordIndex, currentWordData,
                    isLoading, error, allWordsForSession, hasKey, alertMsg, route,
                    routeState, caller, count, i, foundValidWord, fetchedWords,
                    englishWord, activeLoads, preIndex,
                    nextRun, published, trInSlot, trInLoad, track >>
    /\ sinceRequest' = "request"
    /\ wsInSlot' = wsInSlot + 1
    /\ wsInLoad' = IF track THEN wsInLoad + 1 ELSE wsInLoad

\* Word.tsx:123, 155-160: the while loop ends and the for loop advances.
LoaderNextSlot ==
    /\ pc = "while"
    /\ ~(~foundValidWord /\ attempts < MAX_ATTEMPTS_PER_WORD)
    /\ i' = i + 1
    /\ pc' = "for"
    /\ lastOp' = "nextSlot"
    /\ UNCHANGED << uiVars, hasKey, alertMsg, route, routeState, outstanding,
                    caller, count, attempts, foundValidWord, fetchedWords,
                    retryCount, randomWord, englishWord, activeLoads, fetchTries,
                    validated, preIndex,
                    sinceRequest, nextRun, published, wsInSlot, trInSlot, wsInLoad, trInLoad, track >>

\* Mutant: the catch block without its await delay(1000).
LoaderCatch_NoDelay(msg) ==
    /\ fetchedWords' = IF AttemptsExhausted(attempts)
                         THEN Append(fetchedWords, Placeholder(msg))
                         ELSE fetchedWords
    /\ error' = IF AttemptsExhausted(attempts) THEN PARTIAL_FAILURE ELSE error
    /\ foundValidWord' = IF AttemptsExhausted(attempts) THEN TRUE ELSE foundValidWord
    /\ pc' = "while"
    /\ lastOp' = "attemptFailed"

\* Mutant: the catch block inserts the placeholder without setting the warning.
LoaderCatch_NoWarning(msg) ==
    /\ fetchedWords' = IF AttemptsExhausted(attempts)
                         THEN Append(fetchedWords, Placeholder(msg))
                         ELSE fetchedWords
    /\ error' = error
    /\ foundValidWord' = IF AttemptsExhausted(attempts) THEN TRUE ELSE foundValidWord
    /\ pc' = "failDelay"
    /\ lastOp' = "attemptFailed"

\* Word.tsx:138-153: the loader's catch block, entered with the message of the
\* error fetchWordFromAPI rejected with; it ends in its await delay(1000).
LoaderCatch(msg) ==
    /\ fetchedWords' = IF AttemptsExhausted(attempts)
                         THEN Append(fetchedWords, Placeholder(msg))
                         ELSE fetchedWords
    /\ error' = IF AttemptsExhausted(attempts) THEN PARTIAL_FAILURE ELSE error
    /\ foundValidWord' = IF AttemptsExhausted(attempts) THEN TRUE ELSE foundValidWord
    /\ pc' = "failDelay"
    /\ lastOp' = "attemptFailed"

\* Word.tsx:77-83, 93-99, 102-108: one attempt of fetchWordFromAPI has failed with
\* msg.  Below the retry limit the frame awaits delay(1000) and then returns the
\* promise of the recursive call; that promise is returned, not awaited, so its
\* rejection settles every enclosing frame's promise and no enclosing catch block
\* sees it: the rejection of the frame at the retry limit reaches the loader.
FetchFailed(msg) ==
    IF ShouldRetry(retryCount)
      THEN /\ pc' = "retryDelay"
           /\ lastOp' = "fetchRetry"
           /\ UNCHANGED << fetchedWords, error, foundValidWord >>
      ELSE LoaderCatch(msg)

\* Word.tsx:73-91: the Word Source answers.
WordSourceResponds ==
    /\ pc = "wsWait"
    /\ InFlight(WordSourceRequest)
    /\ \E o \in (IF track THEN CountedWordSourceOutcomes ELSE WordSourceOutcomes) :
         IF o.kind = "ok"
           THEN /\ randomWord' = o.word
                /\ outstanding' = Append(Remove(outstanding, WordSourceRequest),
                                         DictionaryRequest(o.word))
                /\ pc' = "dictWait"
                /\ lastOp' = "wordReceived"
                /\ UNCHANGED << fetchedWords, error, foundValidWord >>
           ELSE /\ outstanding' = Remove(outstanding, WordSourceRequest)
                /\ UNCHANGED randomWord
                /\ FetchFailed(CASE o.kind = "notOk"   -> FETCH_ERROR
                                 [] o.kind = "network" -> NETWORK_ERROR
                                 [] o.kind = "badJson" -> JSON_ERROR)
    /\ UNCHANGED << currentScreen, wordCount, currentWordIndex, currentWordData,
                    isLoading, loadingMessage, allWordsForSession, hasKey, alertMsg,
                    route, routeState, caller, count, i, attempts, retryCount,
                    englishWord, activeLoads, fetchTries, validated, preIndex,
                    sinceRequest, nextRun, published, wsInSlot, trInSlot, wsInLoad, trInLoad, track >>

\* Word.tsx:79-80, 95-96, 104-105: the delay is over, fetchWordFromAPI(retryCount + 1)
\* is called and issues its Word Source request.
RetryDelayElapsed ==
    /\ pc = "retryDelay"
    /\ retryCount' = retryCount + 1
    /\ randomWord' = NoValue
    /\ validated' = NoValue
    /\ fetchTries' = fetchTries + 1
    /\ outstanding' = Append(outstanding, WordSourceRequest)
    /\ pc' = "wsWait"
    /\ lastOp' = "retry"
    /\ UNCHANGED << uiVars, hasKey, alertMsg, route, routeState, caller, count, i,
                    attempts, foundValidWord, fetchedWords, englishWord, activeLoads,
                    preIndex,
                    nextRun, published, trInSlot, trInLoad, track >>
    /\ sinceRequest' = "request"
    /\ wsInSlot' = wsInSlot + 1
    /\ wsInLoad' = IF track THEN wsInLoad + 1 ELSE wsInLoad

\* Word.tsx:130-137: translateEnglishToKorean(w) has ended with r, inside the
\* loader's try block: a value is pushed as the pair's translation and the loader
\* awaits delay(1000); an error would enter the loader's catch block.
AfterTranslate(w, r, op) ==
    IF r.kind = "return"
      THEN /\ fetchedWords' = Append(fetchedWords, [english |-> w, korean |-> r.value])
           /\ foundValidWord' = TRUE
           /\ pc' = "okDelay"
           /\ lastOp' = op
           /\ UNCHANGED error
      ELSE LoaderCatch(r.msg)

\* Mutant: the dictionary's answer is not tested.
DictionaryAccepts_Any(o) == TRUE

\* !dictResponse.ok, Word.tsx:93
DictionaryAccepts(o) == o.kind = "ok"

\* Word.tsx:89-101 and 128-130: the dictionary answers.  On success
\* fetchWordFromAPI returns randomWord and the loader calls
\* translateEnglishToKorean, which returns at once without a key (Word.tsx:32-35)
\* and issues its request otherwise.
DictionaryResponds ==
    /\ pc = "dictWait"
    /\ InFlight(DictionaryRequest(randomWord))
    /\ \E o \in (IF track THEN CountedDictionaryOutcomes ELSE DictionaryOutcomes) :
         /\ validated' = IF o.kind = "ok" THEN randomWord ELSE validated
         /\ IF o.kind # "network" /\ DictionaryAccepts(o)
              THEN /\ englishWord' = randomWord
                   /\ loadingMessage' = << "translating", randomWord, i + 1, count >>
                   /\ IF ~hasKey
                        THEN /\ outstanding' =
                                   Remove(outstanding, DictionaryRequest(randomWord))
                             /\ AfterTranslate(randomWord, TranslateWithoutKey,
                                               "translatedNoKey")
                        ELSE /\ outstanding' =
                                   Append(Remove(outstanding,
                                                 DictionaryRequest(randomWord)),
                                          TranslateRequest(randomWord))
                             /\ pc' = "trWait"
                             /\ lastOp' = "fetched"
                             /\ UNCHANGED << fetchedWords, foundValidWord, error >>
              ELSE /\ outstanding' = Remove(outstanding, DictionaryRequest(randomWord))
                   /\ UNCHANGED << englishWord, loadingMessage >>
                   /\ FetchFailed(IF o.kind = "network" THEN NETWORK_ERROR
                                                        ELSE DICT_ERROR)
    /\ UNCHANGED << currentScreen, wordCount, currentWordIndex, currentWordData,
                    isLoading, allWordsForSession, hasKey, alertMsg, route,
                    routeState, caller, count, i, attempts, retryCount, randomWord,
                    activeLoads, fetchTries, preIndex,
                    sinceRequest, nextRun, published, wsInSlot, wsInLoad, track >>
    /\ LET issued == \E k \in 1..Len(outstanding') : outstanding'[k].kind = "translate"
       IN  /\ trInSlot' = IF issued THEN trInSlot + 1 ELSE trInSlot
           /\ trInLoad' = IF issued /\ track THEN trInLoad + 1 ELSE trInLoad

\* Word.tsx:37-67 and 130-137: the translation endpoint answers.
TranslationResponds ==
    /\ pc = "trWait"
    /\ InFlight(TranslateRequest(englishWord))
    /\ \E o \in (IF track THEN CountedTranslateOutcomes ELSE TranslateOutcomes) :
         AfterTranslate(englishWord, TranslateResult(englishWord, o), "translated")
    /\ outstanding' = Remove(outstanding, TranslateRequest(englishWord))
    /\ UNCHANGED << currentScreen, wordCount, currentWordIndex, currentWordData,
                    isLoading, loadingMessage, allWordsForSession, hasKey, alertMsg,
                    route, routeState, caller, count, i, attempts, retryCount,
                    randomWord, englishWord, activeLoads, fetchTries, validated,
                    preIndex,
                    sinceRequest, nextRun, published, wsInSlot, trInSlot, wsInLoad, trInLoad, track >>

\* Word.tsx:137: the delay after a pushed pair is over.
OkDelayElapsed ==
    /\ pc = "okDelay"
    /\ pc' = "while"
    /\ lastOp' = "okDelay"
    /\ UNCHANGED << uiVars, hasKey, alertMsg, route, routeState, outstanding,
                    caller, count, i, attempts, foundValidWord, fetchedWords,
                    retryCount, randomWord, englishWord, activeLoads, fetchTries,
                    validated, preIndex,
                    nextRun, published, wsInSlot, trInSlot, wsInLoad, trInLoad, track >>
    /\ sinceRequest' = "delay"

\* Word.tsx:152: the delay after a failed attempt is over.
FailDelayElapsed ==
    /\ pc = "failDelay"
    /\ pc' = "while"
    /\ lastOp' = "failDelay"
    /\ UNCHANGED << uiVars, hasKey, alertMsg, route, routeState, outstanding,
                    caller, count, i, attempts, foundValidWord, fetchedWords,
                    retryCount, randomWord, englishWord, activeLoads, fetchTries,
                    validated, preIndex,
                    nextRun, published, wsInSlot, trInSlot, wsInLoad, trInLoad, track >>
    /\ sinceRequest' = "delay"

\* Mutant: the loader returns without setIsLoading(false).
LoaderFinish_StaysLoading ==
    /\ pc = "for"
    /\ ~(i < count)
    /\ allWordsForSession' = fetchedWords
    /\ currentWordData' = IF Len(fetchedWords) > 0 THEN fetchedWords[1] ELSE NoWord
    /\ error' = IF Len(fetchedWords) > 0 THEN error ELSE EMPTY_LIST_ERROR
    /\ isLoading' = TRUE
    /\ loadingMessage' = << >>
    /\ currentScreen' = IF caller = "start" THEN 2 ELSE currentScreen
    /\ pc' = "idle"
    /\ caller' = "none"
    /\ activeLoads' = activeLoads - 1
    /\ lastOp' = "loaded"
    \* the call's frame is gone; count keeps the parameter of the finished call
    /\ UNCHANGED count
    /\ i' = 0 /\ attempts' = 0 /\ foundValidWord' = FALSE
    /\ fetchedWords' = << >> /\ retryCount' = 0
    /\ randomWord' = NoValue /\ englishWord' = NoValue
    /\ fetchTries' = 0 /\ validated' = NoValue
    /\ UNCHANGED << wordCount, currentWordIndex, hasKey, alertMsg, route, routeState,
                    outstanding, preIndex,
                    wsInLoad, trInLoad, track >>
    /\ published' = fetchedWords
    /\ nextRun' = IF caller = "start" THEN 0 ELSE nextRun
    /\ sinceRequest' = "none"
    /\ wsInSlot' = 0
    /\ trInSlot' = 0

\* Word.tsx:119 and 161-169: the for loop ends and the result is published.  When
\* handleStartClick awaits the call, its continuation (Word.tsx:192) runs in the
\* same microtask checkpoint, before any user event can be dispatched.
LoaderFinish ==
    /\ pc = "for"
    /\ ~(i < count)
    /\ allWordsForSession' = fetchedWords
    /\ currentWordData' = IF Len(fetchedWords) > 0 THEN fetchedWords[1] ELSE NoWord
    /\ error' = IF Len(fetchedWords) > 0 THEN error ELSE EMPTY_LIST_ERROR
    /\ isLoading' = FALSE
    /\ loadingMessage' = << >>
    /\ currentScreen' = IF caller = "start" THEN 2 ELSE currentScreen
    /\ pc' = "idle"
    /\ caller' = "none"
    /\ activeLoads' = activeLoads - 1
    /\ lastOp' = "loaded"
    \* the call's frame is gone; count keeps the parameter of the finished call
    /\ UNCHANGED count
    /\ i' = 0 /\ attempts' = 0 /\ foundValidWord' = FALSE
    /\ fetchedWords' = << >> /\ retryCount' = 0
    /\ randomWord' = NoValue /\ englishWord' = NoValue
    /\ fetchTries' = 0 /\ validated' = NoValue
    /\ UNCHANGED << wordCount, currentWordIndex, hasKey, alertMsg, route, routeState,
                    outstanding, preIndex,
                    wsInLoad, trInLoad, track >>
    /\ published' = fetchedWords
    /\ nextRun' = IF caller = "start" THEN 0 ELSE nextRun
    /\ sinceRequest' = "none"
    /\ wsInSlot' = 0
    /\ trInSlot' = 0

(***************************************************************************)
(* The handlers of the component and the controls that reach them.         *)
(***************************************************************************)
Mounted == route = "/word"

\* Mutant: the Start button is not disabled while isLoading.
StartButtonEnabled_WhileLoading == Mounted /\ currentScreen = 1

\* Word.tsx:229, 244, 249: the count input and the Start button are rendered on
\* screen 1 and disabled while isLoading.
StartButtonEnabled == Mounted /\ currentScreen = 1 /\ ~isLoading

\* Word.tsx:256-257, 291-297: the next button is rendered on screen 2 once a word
\* is shown, and is always enabled.
NextButtonEnabled ==
    Mounted /\ currentScreen = 2 /\ ~isLoading /\ currentWordData # NoWord

\* Word.tsx:280-286: the previous button is disabled at index 0.
PreviousButtonEnabled == NextButtonEnabled /\ currentWordIndex # 0

\* Word.tsx:301, 312-323: Test and Home are rendered on screen 3.
FinishedButtonsEnabled == Mounted /\ currentScreen = 3

\* Word.tsx:172-176
handleWordCountChange ==
    /\ StartButtonEnabled
    /\ \E n \in -1..MaxCount : wordCount' = n
    /\ lastOp' = "countChanged"
    /\ UNCHANGED << currentScreen, currentWordIndex, currentWordData, isLoading,
                    loadingMessage, error, allWordsForSession, hasKey, alertMsg,
                    route, routeState, outstanding, loaderVars, activeLoads,
                    fetchTries, validated, preIndex,
                    sinceRequest, nextRun, published, wsInSlot, trInSlot, wsInLoad, trInLoad, track >>

\* Mutant: handleStartClick without its word-count guard.
StartRejection_NoCountGuard == IF ~hasKey THEN KEY_ALERT ELSE NoAlert

\* Mutant: handleStartClick without its API-key guard.
StartRejection_NoKeyGuard == IF wordCount <= 0 THEN COUNT_ALERT ELSE NoAlert

\* Word.tsx:179-188: the two guards of handleStartClick.
StartRejection ==
    IF wordCount <= 0 THEN COUNT_ALERT
    ELSE IF ~hasKey THEN KEY_ALERT
    ELSE NoAlert

\* Word.tsx:178-193, up to the first await inside fetchAndTranslateWords.
handleStartClick ==
    /\ StartButtonEnabled
    /\ IF StartRejection # NoAlert
         THEN /\ alertMsg' = StartRejection
              /\ lastOp' = "startRejected"
              /\ UNCHANGED << uiVars, loaderVars, activeLoads, fetchTries, validated,
                              outstanding, sinceRequest, wsInSlot, trInSlot,
                              wsInLoad, trInLoad >>
         ELSE /\ currentWordIndex' = 0
              /\ BeginLoad(wordCount, "start")
              /\ lastOp' = "startLoad"
              /\ UNCHANGED << currentScreen, wordCount, currentWordData,
                              allWordsForSession, alertMsg >>
    /\ UNCHANGED << hasKey, route, routeState, preIndex, nextRun, published, track >>

\* Mutant: handleNextWord advances the cursor without updating the current word.
NextWordBody_StaleWord ==
    LET nextIndex == currentWordIndex + 1
    IN  /\ preIndex' = currentWordIndex
        /\ lastOp' = "next"
        /\ nextRun' = IF nextRun >= 0 THEN nextRun + 1 ELSE nextRun
        /\ IF nextIndex < Len(allWordsForSession)
             THEN /\ currentWordIndex' = nextIndex
                  /\ UNCHANGED << currentScreen, currentWordData >>
             ELSE /\ currentScreen' = 3
                  /\ UNCHANGED << currentWordIndex, currentWordData >>
        /\ UNCHANGED << wordCount, isLoading, loadingMessage, error,
                        allWordsForSession, hasKey, alertMsg, route, routeState,
                        outstanding, loaderVars, activeLoads, fetchTries, validated,
                        sinceRequest, published, track, wsInSlot, trInSlot,
                        wsInLoad, trInLoad >>

\* Mutant: handleNextWord finishes one word early (nextIndex < length - 1).
NextWordBody_FinishEarly ==
    LET nextIndex == currentWordIndex + 1
    IN  /\ preIndex' = currentWordIndex
        /\ lastOp' = "next"
        /\ nextRun' = IF nextRun >= 0 THEN nextRun + 1 ELSE nextRun
        /\ IF nextIndex < Len(allWordsForSession) - 1
             THEN /\ currentWordIndex' = nextIndex
                  /\ currentWordData' = allWordsForSession[nextIndex + 1]
                  /\ UNCHANGED currentScreen
             ELSE /\ currentScreen' = 3
                  /\ UNCHANGED << currentWordIndex, currentWordData >>
        /\ UNCHANGED << wordCount, isLoading, loadingMessage, error,
                        allWordsForSession, hasKey, alertMsg, route, routeState,
                        outstanding, loaderVars, activeLoads, fetchTries, validated,
                        sinceRequest, published, track, wsInSlot, trInSlot,
                        wsInLoad, trInLoad >>

\* Word.tsx:196-204
NextWordBody ==
    LET nextIndex == currentWordIndex + 1
    IN  /\ preIndex' = currentWordIndex
        /\ lastOp' = "next"
        /\ nextRun' = IF nextRun >= 0 THEN nextRun + 1 ELSE nextRun
        /\ IF nextIndex < Len(allWordsForSession)
             THEN /\ currentWordIndex' = nextIndex
                  /\ currentWordData' = allWordsForSession[nextIndex + 1]
                  /\ UNCHANGED currentScreen
             ELSE /\ currentScreen' = 3
                  /\ UNCHANGED << currentWordIndex, currentWordData >>
        /\ UNCHANGED << wordCount, isLoading, loadingMessage, error,
                        allWordsForSession, hasKey, alertMsg, route, routeState,
                        outstanding, loaderVars, activeLoads, fetchTries, validated,
                        sinceRequest, published, track, wsInSlot, trInSlot,
                        wsInLoad, trInLoad >>

handleNextWord == NextButtonEnabled /\ NextWordBody

\* Mutant: handlePreviousWord wraps from the first word to the last.
PreviousWordBody_Wrap ==
    LET prevIndex == IF currentWordIndex > 0 THEN currentWordIndex - 1
                     ELSE Len(allWordsForSession) - 1
    IN  /\ preIndex' = currentWordIndex
        /\ lastOp' = "previous"
        /\ nextRun' = -1
        /\ currentWordIndex' = prevIndex
        /\ currentWordData' = allWordsForSession[prevIndex + 1]
        /\ error' = NoError
        /\ UNCHANGED << currentScreen, wordCount, isLoading, loadingMessage,
                        allWordsForSession, hasKey, alertMsg, route, routeState,
                        outstanding, loaderVars, activeLoads, fetchTries, validated,
                        sinceRequest, published, track, wsInSlot, trInSlot,
                        wsInLoad, trInLoad >>

\* Word.tsx:207-216
PreviousWordBody ==
    /\ preIndex' = currentWordIndex
    /\ lastOp' = "previous"
    /\ nextRun' = -1
    /\ IF currentWordIndex > 0
         THEN LET prevIndex == currentWordIndex - 1
              IN  /\ currentWordIndex' = prevIndex
                  /\ currentWordData' = allWordsForSession[prevIndex + 1]
                  /\ error' = NoError
         ELSE /\ error' = NO_PREVIOUS
              /\ UNCHANGED << currentWordIndex, currentWordData >>
    /\ UNCHANGED << currentScreen, wordCount, isLoading, loadingMessage,
                    allWordsForSession, hasKey, alertMsg, route, routeState,
                    outstanding, loaderVars, activeLoads, fetchTries, validated,
                    sinceRequest, published, track, wsInSlot, trInSlot,
                    wsInLoad, trInLoad >>

handlePreviousWord == PreviousButtonEnabled /\ PreviousWordBody

\* Mutant: handleTestClick hands over only the pairs that were really loaded.
handleTestClick_DropPlaceholders ==
    /\ FinishedButtonsEnabled
    /\ route' = "/test"
    /\ routeState' = SelectSeq(allWordsForSession, LAMBDA p : ~IsPlaceholder(p))
    /\ lastOp' = "test"
    /\ UNCHANGED << uiVars, hasKey, alertMsg, outstanding, loaderVars, activeLoads,
                    fetchTries, validated, preIndex,
                    sinceRequest, nextRun, published, wsInSlot, trInSlot, wsInLoad, trInLoad, track >>

\* Word.tsx:219-221
handleTestClick ==
    /\ FinishedButtonsEnabled
    /\ route' = "/test"
    /\ routeState' = allWordsForSession
    /\ lastOp' = "test"
    /\ UNCHANGED << uiVars, hasKey, alertMsg, outstanding, loaderVars, activeLoads,
                    fetchTries, validated, preIndex,
                    sinceRequest, nextRun, published, wsInSlot, trInSlot, wsInLoad, trInLoad, track >>

\* Word.tsx:224-226
handleHomeClick ==
    /\ FinishedButtonsEnabled
    /\ route' = "/home"
    /\ lastOp' = "home"
    /\ UNCHANGED << uiVars, hasKey, alertMsg, routeState, outstanding, loaderVars,
                    activeLoads, fetchTries, validated, preIndex,
                    sinceRequest, nextRun, published, wsInSlot, trInSlot, wsInLoad, trInLoad, track >>

(***************************************************************************)
(* Spec: the component driven through its rendered controls.               *)
(***************************************************************************)
Next ==
    \/ handleWordCountChange
    \/ handleStartClick
    \/ handleNextWord
    \/ handlePreviousWord
    \/ handleTestClick
    \/ handleHomeClick
    \/ LoaderEnterSlot
    \/ LoaderAttempt
    \/ LoaderNextSlot
    \/ WordSourceResponds
    \/ RetryDelayElapsed
    \/ DictionaryResponds
    \/ TranslationResponds
    \/ OkDelayElapsed
    \/ FailDelayElapsed
    \/ LoaderFinish

Spec == Init /\ [][Next]_vars

(***************************************************************************)
(* SpecFair: Spec, with the loader never stopping for ever at a step it    *)
(* can take: every network call is answered (with success or failure) and  *)
(* every delay elapses.  The user's actions carry no fairness.             *)
(***************************************************************************)
LoaderStep ==
    \/ LoaderEnterSlot
    \/ LoaderAttempt
    \/ LoaderNextSlot
    \/ WordSourceResponds
    \/ RetryDelayElapsed
    \/ DictionaryResponds
    \/ TranslationResponds
    \/ OkDelayElapsed
    \/ FailDelayElapsed
    \/ LoaderFinish

SpecFair == Spec /\ WF_vars(LoaderStep)

(***************************************************************************)
(* SpecDirect: the same component, and in addition the calls the rendered  *)
(* controls never make: fetchAndTranslateWords(n) called without the       *)
(* guards of handleStartClick (n <= 0, or no API key), and                 *)
(* handlePreviousWord called although its button is disabled.              *)
(***************************************************************************)
DirectLoad ==
    /\ Mounted /\ currentScreen = 1 /\ ~isLoading /\ pc = "idle"
    /\ allWordsForSession = << >> /\ error = NoError
    /\ \E n \in 0..MaxCount :
         /\ n <= 0 \/ ~hasKey
         /\ BeginLoad(n, "direct")
    /\ lastOp' = "directLoad"
    /\ UNCHANGED << currentScreen, wordCount, currentWordIndex, currentWordData,
                    allWordsForSession, hasKey, alertMsg, route, routeState,
                    preIndex, nextRun, published, track >>

DirectPrevious ==
    /\ NextButtonEnabled
    /\ ~PreviousButtonEnabled
    /\ PreviousWordBody

NextDirect == Next \/ DirectLoad \/ DirectPrevious

SpecDirect == Init /\ [][NextDirect]_vars

(***************************************************************************)
(* SpecCount: Spec with the Word Source and translation requests of each   *)
(* load counted.                                                           *)
(***************************************************************************)
SpecCount == InitCount /\ [][Next]_vars

(***************************************************************************)
(* Properties.                                                             *)
(***************************************************************************)
Last(seq) == seq[Len(seq)]

\* C1: when fetchAndTranslateWords(N) completes, for any N >= 1 and any outcomes of
\* the three services, the session word list has exactly N entries; and at every
\* loop boundary of the load the number of accumulated pairs is the number of
\* slots finished so far (i at the head of the for loop; inside the while loop, i
\* plus one once slot i is filled).
C1_ListLengthIsCount ==
    /\ (lastOp = "loaded" /\ count >= 1) => Len(allWordsForSession) = count
    /\ pc = "for" => Len(fetchedWords) = i /\ i <= count
    /\ pc = "while" =>
         Len(fetchedWords) = (IF foundValidWord THEN i + 1 ELSE i) /\ i < count

C1_Witness ==
    /\ lastOp = "loaded"
    /\ count = 2
    /\ Len(allWordsForSession) = 2
    /\ IsPlaceholder(allWordsForSession[1])
    /\ ~IsPlaceholder(allWordsForSession[2])

\* C2: one top-level call of fetchWordFromAPI makes at most 4 attempts
\* (retryCount 0..3) whatever mix of failures occurs; it fails only after 4
\* failed attempts; when the first 3 attempts fail and the 4th passes both checks
\* it returns the word of the 4th attempt.
C2_FetchAtMostFourAttempts ==
    /\ fetchTries <= 4
    /\ retryCount <= 3
    /\ pc \in {"wsWait", "dictWait", "retryDelay"} => fetchTries = retryCount + 1
    /\ lastOp = "attemptFailed" => fetchTries = 4
    /\ (lastOp = "fetched" /\ fetchTries = 4) =>
         /\ englishWord = randomWord
         /\ englishWord \in Words
         /\ pc = "trWait"
         /\ Len(fetchedWords) = i
    /\ (lastOp = "translatedNoKey" /\ fetchTries = 4) =>
         /\ Last(fetchedWords).english = randomWord
         /\ randomWord \in Words

C2_Witness ==
    /\ lastOp = "fetched"
    /\ fetchTries = 4
    /\ retryCount = 3
    /\ englishWord = randomWord

\* C3: for every slot the loader makes at most 5 attempts; a placeholder pair is
\* appended for the slot exactly when the 5th attempt fails, never earlier; and
\* after appending it the loader goes on with the next slot (or publishes the
\* list when it was the last slot) instead of aborting the load.
C3_PlaceholderAfterFifthFailure ==
    /\ [](attempts <= 5)
    /\ [](lastOp = "attemptFailed" =>
            /\ pc = "failDelay"
            /\ IF attempts = 5
                 THEN /\ Len(fetchedWords) = i + 1
                      /\ IsPlaceholder(fetchedWords[i + 1])
                      /\ foundValidWord
                 ELSE /\ Len(fetchedWords) = i
                      /\ ~foundValidWord)
    /\ [][(pc = "failDelay" /\ foundValidWord) => (pc' = "while" /\ isLoading')]_vars
    /\ [][(pc = "while" /\ foundValidWord) =>
            (pc' = "for" /\ i' = i + 1 /\ isLoading' /\ fetchedWords' = fetchedWords)]_vars
    /\ [][(pc = "for" /\ i < count) =>
            (pc' = "while" /\ attempts' = 0 /\ ~foundValidWord'
               /\ fetchedWords' = fetchedWords)]_vars

C3_Witness ==
    /\ pc = "wsWait"
    /\ i = 1
    /\ Len(fetchedWords) = 1
    /\ IsPlaceholder(fetchedWords[1])

\* C4: every translation request, and every call of translateEnglishToKorean, is
\* for the word the dictionary accepted in the same fetch attempt.
C4_TranslateOnlyValidated ==
    /\ \A k \in 1..Len(outstanding) :
         outstanding[k].kind = "translate" =>
           /\ outstanding[k].q = validated
           /\ outstanding[k].q = randomWord
           /\ outstanding[k].q \in Words
    /\ lastOp \in {"fetched", "translated", "translatedNoKey"} =>
         englishWord = validated /\ englishWord \in Words
    /\ \A k \in 1..Len(fetchedWords) :
         (k = Len(fetchedWords) /\ lastOp \in {"translated", "translatedNoKey"}) =>
           fetchedWords[k].english = validated

C4_Witness ==
    /\ Len(outstanding) = 1
    /\ outstanding[1] = TranslateRequest("dog")
    /\ validated = "dog"
    /\ fetchTries = 2

C6_PreviousWord ==
    [][lastOp' = "previous" =>
         IF currentWordIndex >= 1
           THEN /\ currentWordIndex <= Len(allWordsForSession) - 1
                /\ currentWordIndex' = currentWordIndex - 1
           ELSE /\ UNCHANGED << currentWordIndex, currentWordData,
                                allWordsForSession, currentScreen >>
                /\ error' = NO_PREVIOUS]_vars

C6_Witness ==
    /\ lastOp = "previous"
    /\ preIndex = 0
    /\ currentWordIndex = 0
    /\ error = NO_PREVIOUS
    /\ Len(allWordsForSession) = 2

\* C7: the screen only moves Setup -> (loading) -> Browsing -> Finished: screen 3 is
\* entered only by handleNextWord on screen 2 with the cursor at the last index,
\* that step leaves the cursor unchanged, screen 2 is entered only from screen 1
\* by the end of a load, and no step moves the screen backwards.
C7_ScreenOrder ==
    /\ [][(currentScreen' = 3 /\ currentScreen # 3) =>
            /\ lastOp' = "next"
            /\ currentScreen = 2
            /\ currentWordIndex = Len(allWordsForSession) - 1
            /\ currentWordIndex' = currentWordIndex]_vars
    /\ [][(currentScreen' = 2 /\ currentScreen # 2) =>
            /\ lastOp' = "loaded"
            /\ currentScreen = 1
            /\ isLoading /\ ~isLoading']_vars
    /\ [][currentScreen' >= currentScreen]_vars

C7_Witness ==
    /\ currentScreen = 3
    /\ lastOp = "next"
    /\ Len(allWordsForSession) = 2
    /\ currentWordIndex = 1

\* C8: once the load has completed (Browsing or Finished), after any sequence of
\* next and previous actions, 0 <= currentWordIndex < allWordsForSession.length.
C8_CursorInRange ==
    currentScreen \in {2, 3} =>
      /\ 0 <= currentWordIndex
      /\ currentWordIndex < Len(allWordsForSession)

C8_Witness ==
    /\ currentScreen = 2
    /\ lastOp = "previous"
    /\ preIndex = 1
    /\ currentWordIndex = 0
    /\ Len(allWordsForSession) = 2

\* C9 as stated: with the translation credential missing, a user request for 1
\* word (Start pressed with wordCount = 1) yields a list of exactly 1 pair whose
\* target is the missing-key message.
C9_AsStated ==
    (~hasKey /\ wordCount = 1 /\ lastOp = "startRejected") =>
      /\ Len(allWordsForSession) = 1
      /\ allWordsForSession[1].korean = NO_KEY_MESSAGE

\* C9 as amended: with the translation credential missing, a user request for N
\* >= 1 words is refused by handleStartClick with the missing-key alert; no load
\* starts, so the session word list stays empty, the screen stays Setup and no
\* network request (translation or other) is ever made.
C9_NoKeyNoLoad ==
    ~hasKey =>
      /\ allWordsForSession = << >>
      /\ currentScreen = 1
      /\ ~isLoading /\ activeLoads = 0 /\ pc = "idle"
      /\ outstanding = << >>
      /\ (lastOp = "startRejected" /\ wordCount >= 1) => alertMsg = KEY_ALERT

C9_Witness ==
    /\ ~hasKey
    /\ wordCount = 1
    /\ lastOp = "startRejected"
    /\ alertMsg = KEY_ALERT

\* C10: at most one network request is outstanding at any time and at most one
\* load is in flight (Start cannot begin a second load while one runs); a request
\* is outstanding only during a load, and every request for slot i is issued
\* after the pairs of slots 0..i-1, and only those, have been appended.
C10_Sequential ==
    /\ Len(outstanding) <= 1
    /\ activeLoads <= 1
    /\ isLoading = (activeLoads = 1)
    /\ Len(outstanding) = 1 =>
         /\ isLoading
         /\ pc \in {"wsWait", "dictWait", "trWait"}
         /\ Len(fetchedWords) = i
         /\ i < count

C10_Witness ==
    /\ outstanding = << WordSourceRequest >>
    /\ i = 1
    /\ Len(fetchedWords) = 1
    /\ activeLoads = 1

\* C11: a load started with count N >= 1 eventually completes (isLoading false and
\* the Browsing screen shown), provided every network call and every delay
\* eventually returns or fails: no sequence of failures keeps the loader
\* retrying for ever.
C11_LoadCompletes ==
    (isLoading /\ count >= 1) ~> (~isLoading /\ currentScreen = 2)

C11_Witness ==
    /\ lastOp = "loaded"
    /\ ~isLoading
    /\ currentScreen = 2
    /\ count = 2
    /\ IsPlaceholder(allWordsForSession[1])
    /\ IsPlaceholder(allWordsForSession[2])

\* C12: while a load is in progress (isLoading) no navigation action (next,
\* previous, test, home) and no second Start takes effect: the screen stays
\* Setup, the cursor stays 0 and the session word list is unchanged until the
\* loader publishes its result when it completes.
C12_NoInteractionWhileLoading ==
    /\ [](isLoading =>
            /\ currentScreen = 1
            /\ currentWordIndex = 0
            /\ allWordsForSession = << >>)
    /\ [][isLoading =>
            lastOp' \notin {"startLoad", "startRejected", "countChanged",
                            "next", "previous", "test", "home"}]_vars
    /\ [][(isLoading /\ isLoading') =>
            UNCHANGED << currentScreen, currentWordIndex, currentWordData,
                         allWordsForSession, wordCount >>]_vars
    /\ [][(isLoading /\ ~isLoading') =>
            (lastOp' = "loaded" /\ allWordsForSession' = fetchedWords)]_vars

C12_Witness ==
    /\ isLoading
    /\ pc = "dictWait"
    /\ Len(fetchedWords) = 1
    /\ allWordsForSession = << >>
    /\ currentScreen = 1

\* C13: when the load completes, the partial-failure warning is the error state
\* if at least one slot was filled with a placeholder pair, and no error is set
\* if every slot was filled with a fetched word.
C13_WarningIffPlaceholder ==
    lastOp = "loaded" =>
      IF \E k \in 1..Len(allWordsForSession) : IsPlaceholder(allWordsForSession[k])
        THEN error = PARTIAL_FAILURE
        ELSE error = NoError

C13_Witness ==
    /\ lastOp = "loaded"
    /\ Len(allWordsForSession) = 2
    /\ ~IsPlaceholder(allWordsForSession[1])
    /\ IsPlaceholder(allWordsForSession[2])
    /\ error = PARTIAL_FAILURE

WordSourceIssued ==
    /\ ~InFlight(WordSourceRequest)
    /\ \E k \in 1..Len(outstanding') : outstanding'[k] = WordSourceRequest

\* C14: the loader runs a delay step after every pushed fetch-translate pair and
\* after every failed attempt, the 5th (which inserts the placeholder) included;
\* and between any two consecutive Word Source requests of a load at least one
\* delay step occurs (the retry delay inside fetchWordFromAPI, or the loader's).
C14_DelayBetweenRequests ==
    /\ [](lastOp \in {"translated", "translatedNoKey"} => pc = "okDelay")
    /\ [](lastOp = "attemptFailed" => pc = "failDelay")
    /\ [][pc = "okDelay" => lastOp' = "okDelay"]_vars
    /\ [][pc = "failDelay" => lastOp' = "failDelay"]_vars
    /\ [](sinceRequest = "none" => wsInSlot = 0 /\ i = 0)
    /\ [][WordSourceIssued =>
            \/ pc = "retryDelay" /\ lastOp' = "retry"
            \/ sinceRequest \in {"none", "delay"}]_vars

C14_Witness ==
    /\ lastOp = "failDelay"
    /\ attempts = 5
    /\ IsPlaceholder(Last(fetchedWords))
    /\ sinceRequest = "delay"
    /\ wsInSlot = 20

\* C15: after a load of N words the Browsing screen is shown with the cursor at
\* 0; k next actions in a row, k < N, leave the session in Browsing with the
\* cursor at k, and the N-th next action in a row moves it to Finished.
C15_NextWalksTheList ==
    /\ lastOp = "loaded" =>
         /\ currentScreen = 2
         /\ currentWordIndex = 0
         /\ nextRun = 0
         /\ Len(allWordsForSession) = count
    /\ nextRun >= 0 =>
         IF nextRun < Len(allWordsForSession)
           THEN currentScreen = 2 /\ currentWordIndex = nextRun
           ELSE /\ nextRun = Len(allWordsForSession)
                /\ currentScreen = 3

C15_Witness ==
    /\ Len(allWordsForSession) = 2
    /\ nextRun = 2
    /\ currentScreen = 3
    /\ lastOp = "next"

\* C16: for loads started through handleStartClick, per-slot failures never
\* become a session failure: handleStartClick rejects a count <= 0 without
\* starting a load or changing the screen, so every load has count >= 1, the
\* published list is non-empty, the empty-list error is never set, and the
\* current word is non-null whenever the Browsing screen is shown, even when
\* every slot ends as a placeholder.
C16_NoSessionFailure ==
    /\ [](error # EMPTY_LIST_ERROR)
    /\ [](isLoading => count >= 1)
    /\ [](lastOp = "loaded" => Len(allWordsForSession) >= 1)
    /\ [](currentScreen = 2 =>
            /\ Len(allWordsForSession) >= 1
            /\ currentWordData # NoWord)
    /\ [][(StartButtonEnabled /\ wordCount <= 0 /\ lastOp' \in {"startRejected", "startLoad"})
            => /\ lastOp' = "startRejected"
               /\ alertMsg' = COUNT_ALERT
               /\ UNCHANGED << isLoading, currentScreen, allWordsForSession,
                               currentWordData, pc, activeLoads >>]_vars

C16_Witness ==
    /\ currentScreen = 2
    /\ lastOp = "loaded"
    /\ Len(allWordsForSession) = 1
    /\ IsPlaceholder(allWordsForSession[1])
    /\ currentWordData = allWordsForSession[1]
    /\ error = PARTIAL_FAILURE

\* C17: once a load has completed, no next, previous, test or home action
\* modifies the session word list, and the list handleTestClick hands to the
\* test view is exactly the list the loader published: all N pairs,
\* placeholders included.
C17_ListFixedAfterLoad ==
    /\ [][lastOp' \in {"next", "previous", "test", "home"}
            => UNCHANGED allWordsForSession]_vars
    /\ [](currentScreen \in {2, 3} =>
            /\ allWordsForSession = published
            /\ Len(allWordsForSession) = count)
    /\ [](route = "/test" =>
            /\ routeState = published
            /\ Len(routeState) = count)

C17_Witness ==
    /\ route = "/test"
    /\ lastOp = "test"
    /\ Len(routeState) = 2
    /\ ~IsPlaceholder(routeState[1])
    /\ IsPlaceholder(routeState[2])

\* C18: once a load has completed, the current word is the entry of the session
\* word list at the cursor: currentWordData = allWordsForSession[currentWordIndex]
\* (the list is 0-based in the code, 1-based here).
C18_CurrentWordAtCursor ==
    (~isLoading /\ Len(allWordsForSession) >= 1) =>
        /\ currentWordIndex \in 0..(Len(allWordsForSession) - 1)
        /\ currentWordData = allWordsForSession[currentWordIndex + 1]

C18_Witness ==
    /\ currentScreen = 2
    /\ lastOp = "previous"
    /\ currentWordIndex = 0
    /\ Len(allWordsForSession) = 2
    /\ allWordsForSession[1] # allWordsForSession[2]
    /\ currentWordData = allWordsForSession[1]

\* C19: a placeholder is pushed for a slot only after exactly 20 failed Word
\* Source fetch attempts for that slot (5 loader attempts of 4 fetch attempts)
\* and no successful one; a load of N words issues at most 20 * N Word Source
\* requests and at most N translation requests: at most one per slot and none
\* for a slot that ends as a placeholder.
C19_RequestBudget ==
    /\ [](wsInSlot <= 20 /\ trInSlot <= 1)
    /\ [][(Len(fetchedWords') = Len(fetchedWords) + 1 /\ IsPlaceholder(Last(fetchedWords')))
            => /\ wsInSlot = 20
               /\ trInSlot = 0
               /\ attempts = 5
               /\ outstanding' = << >>]_vars
    /\ [][(Len(fetchedWords') = Len(fetchedWords) + 1 /\ ~IsPlaceholder(Last(fetchedWords')))
            => /\ wsInSlot <= 20
               /\ trInSlot = (IF hasKey THEN 1 ELSE 0)]_vars
    /\ [](track => /\ wsInLoad <= 20 * count
                   /\ trInLoad <= count)
    /\ []((track /\ isLoading) =>
            /\ wsInLoad <= 20 * Len(fetchedWords) + (IF foundValidWord THEN 0 ELSE wsInSlot)
            /\ trInLoad = Cardinality({ k \in 1..Len(fetchedWords) :
                                          ~IsPlaceholder(fetchedWords[k]) })
                            + (IF pc = "trWait" THEN 1 ELSE 0))
    /\ []((track /\ lastOp = "loaded") =>
            trInLoad = Cardinality({ k \in 1..Len(allWordsForSession) :
                                       ~IsPlaceholder(allWordsForSession[k]) }))

C19_Witness ==
    /\ track
    /\ lastOp = "loaded"
    /\ count = 2
    /\ ~IsPlaceholder(allWordsForSession[1])
    /\ IsPlaceholder(allWordsForSession[2])
    /\ wsInLoad = 40
    /\ trInLoad = 1

====
